---- MODULE Spec2Model ----
(***************************************************************************)
(* Model of the request pipeline of AnalyticsClient (Zoho Analytics NodeJS *)
(* client): the cached access token, the OAuth refresh-grant exchange      *)
(* (getOauth), the three single-request handlers (handleV2Request,         *)
(* handleImportRequest, handleExportRequest) with their retry-on-8535      *)
(* catch handlers, and the chunked batch import                            *)
(* (handleBatchImportRequest).                                             *)
(*                                                                         *)
(* JavaScript runs each continuation to completion, so one action is one   *)
(* continuation: the synchronous code between two awaits / I/O callbacks.  *)
(* An exception thrown inside an I/O callback (a JSON.parse in a response  *)
(* or error listener) is outside every promise: the promise of the call is *)
(* never settled; this is the call state "uncaught".                       *)
(***************************************************************************)
EXTENDS Integers, Sequences, FiniteSets, TLC

VARIABLES accessToken, call, batch, facade, relay

vars == <<accessToken, call, batch, facade, relay>>

----------------------------------------------------------------------------
(* Values *)

Null == "null"
Undefined == "undefined"
None == "none"

Calls == {"a", "b"}
Tokens == {"tok1", "tok2"}

\* application error codes of the upstream envelope: the expiry sentinel and
\* some other code
Sentinel == "8535"
OtherCode == "7103"
ErrorCodes == {Sentinel, OtherCode}

\* a connection failure (the 'error' event / the err argument of the callback)
ConnError == [status |-> 0, body |-> "conn"]

\* no response received yet
NoResponse == [status |-> 0, body |-> "none"]

\* API responses: body "json" is an envelope {data: payload}, a body in
\* ErrorCodes is an envelope {data: {errorCode: ...}}, "raw" is not JSON
ApiResponses ==
    {[status |-> s, body |-> b] : s \in {200, 201}, b \in {"json", "raw"}}
    \cup {[status |-> 400, body |-> b] : b \in ErrorCodes \cup {"raw"}}
    \cup {ConnError}

\* responses of the accounts host to the refresh-token grant
OauthResponses ==
    {[body |-> "json", access_token |-> t, error |-> Undefined] :
        t \in Tokens \cup {Undefined}}
    \cup {[body |-> "json", access_token |-> Undefined, error |-> "invalid_code"],
          [body |-> "raw", access_token |-> Undefined, error |-> Undefined],
          [body |-> "conn", access_token |-> Undefined, error |-> Undefined]}

\* how a promise executor's callback ends: resolve(val), reject(val), or an
\* exception thrown inside the callback (promise left pending)
Resolve(v) == [settle |-> "resolve", val |-> v]
Reject(v) == [settle |-> "reject", val |-> v]
Throw == [settle |-> "throw", val |-> "SyntaxError"]

----------------------------------------------------------------------------
(* Pure parts of the code *)

\* respCode.startsWith('2') for a three-digit status
Is2xx(status) == status \div 100 = 2

\* the data field of a parsed envelope
EnvelopeData(body) == IF body \in ErrorCodes THEN body ELSE "data"

\* error.errorCode of a rejection value
errorCode(error) ==
    IF error \in ErrorCodes THEN error
    ELSE IF error = "oauthError" THEN "0"
    ELSE Undefined

\* variant: the body of every 2xx response is parsed
sendV2Settles_parse2xx(resp, isExportReq) ==
    IF resp = ConnError THEN <<>>
    ELSE IF ~Is2xx(resp.status)
         THEN IF resp.body = "raw" THEN <<>>
              ELSE <<Reject(EnvelopeData(resp.body)), Resolve(Undefined)>>
    ELSE IF isExportReq THEN <<Resolve("bytes"), Resolve(Undefined)>>
    ELSE IF resp.body = "raw" THEN <<>>
    ELSE <<Resolve(EnvelopeData(resp.body)), Resolve(Undefined)>>

\* sendV2Request: the resolve / reject calls made by the 'end' and 'error'
\* listeners, in order; none when JSON.parse throws first.  Every branch of
\* the 'end' listener falls through to the final resolve().
sendV2Settles(resp, isExportReq) ==
    IF resp = ConnError THEN <<>>                       \* reject(JSON.parse(err))
    ELSE IF ~Is2xx(resp.status)
         THEN IF resp.body = "raw" THEN <<>>            \* JSON.parse(data)
              ELSE <<Reject(EnvelopeData(resp.body)), Resolve(Undefined)>>
    ELSE IF isExportReq THEN <<Resolve("bytes"), Resolve(Undefined)>>
    ELSE IF resp.status = 200
         THEN IF resp.body = "raw" THEN <<>>
              ELSE <<Resolve(EnvelopeData(resp.body)), Resolve(Undefined)>>
    ELSE <<Resolve(Undefined)>>

\* sendV2Request: how its promise ends; the first resolve / reject call
\* settles a promise and later calls have no effect
sendV2Outcome(resp, isExportReq) ==
    IF sendV2Settles(resp, isExportReq) = <<>> THEN Throw
    ELSE Head(sendV2Settles(resp, isExportReq))

\* sendImportRequest / sendBatchImportRequest: the request.post callback
sendImportOutcome(resp) ==
    IF resp = ConnError THEN Throw                      \* reject(JSON.parse(err))
    ELSE IF resp.body = "raw" THEN Throw                \* JSON.parse(body)
    ELSE IF resp.status # 200 THEN Reject(EnvelopeData(resp.body))
    ELSE Resolve(EnvelopeData(resp.body))

\* sendExportRequest: what fs.writeFileSync(filePath, body) puts at the target
\* path (None: the callback does not write)
sendExportWritten(resp) ==
    IF resp # ConnError /\ resp.status = 200 THEN resp.body ELSE None

\* variant: the body is parsed before the status is looked at, as the import
\* callbacks do
sendExportOutcome_parse(resp) ==
    IF resp = ConnError THEN Throw
    ELSE IF resp.body = "raw" THEN Throw
    ELSE IF resp.status # 200 THEN Reject(EnvelopeData(resp.body))
    ELSE Resolve(Undefined)

\* sendExportRequest: the request.get callback
sendExportOutcome(resp) ==
    IF resp = ConnError THEN Throw                      \* reject(JSON.parse(err))
    ELSE IF resp.status # 200
         THEN IF resp.body = "raw" THEN Throw
              ELSE Reject(EnvelopeData(resp.body))
    ELSE Resolve(Undefined)                             \* writeFileSync; resolve()

sendOutcome(kind, resp, isExportReq) ==
    CASE kind = "v2" -> sendV2Outcome(resp, isExportReq)
      [] kind = "import" -> sendImportOutcome(resp)
      [] kind = "export" -> sendExportOutcome(resp)

\* getOauth: the 'end' and 'error' listeners
getOauth(oresp) ==
    IF oresp.body = "conn" THEN Reject("oauthConn")     \* reject(err.message)
    ELSE IF oresp.body = "raw" THEN Throw               \* JSON.parse(data)
    ELSE IF oresp.error = Undefined THEN Resolve(oresp.access_token)
    ELSE Reject("oauthError")

\* variant: a strict comparison with undefined, which null does not satisfy
tokenMissing_strict(tok) == tok = Undefined

\* if(this.accessToken == null): null and undefined both compare equal to null
tokenMissing(tok) == tok \in {Null, Undefined}

\* variant: the retry is sent through the same handler, so it refreshes again
catchHandler_loop(attempt, error) ==
    IF errorCode(error) = Sentinel THEN "refresh" ELSE "throw"

\* variant: the handler does not look at the error code
catchHandler_any(attempt, error) ==
    IF attempt = 1 THEN "refresh" ELSE "throw"

\* the .catch attached to the first send: refresh and retry on the sentinel,
\* rethrow otherwise; the retry's own rejection has no handler
catchHandler(attempt, error) ==
    IF attempt = 1 /\ errorCode(error) = Sentinel THEN "refresh" ELSE "throw"

\* variant: the header is only filled in when it has no Authorization yet
Authorization_keep(header, cached) == IF header = None THEN cached ELSE header

\* header.Authorization = 'Zoho-oauthtoken ' + this.accessToken, assigned each
\* time a send function is entered, whatever the header held before
Authorization(header, cached) == cached

----------------------------------------------------------------------------
(* State *)

IdleCall == [pc |-> "idle", kind |-> None, isExportReq |-> FALSE,
             startTok |-> None, auth |-> None, nreq |-> 0, nexch |-> 0,
             exchBefore |-> 0, first |-> None, resp |-> NoResponse,
             refreshed |-> None, val |-> None, fileOk |-> TRUE,
             written |-> None]

IdleBatch == [pc |-> "idle", file |-> <<>>, batchSize |-> 1, i |-> 0,
              batchKey |-> None, isLastBatch |-> None, jobId |-> Undefined,
              nexch |-> 0, attempt |-> 0, sent |-> <<>>, recv |-> <<>>,
              resp |-> NoResponse, val |-> None]

\* a header object handed by a facade to the pipeline, by the entries that
\* differ between calls (User-Agent and Authorization are assigned anew by
\* every send function and are left out)
Header(orgId, destOrgId, contentType) ==
    [orgId |-> orgId, destOrgId |-> destOrgId, contentType |-> contentType]

FormUrlEncoded == "application/x-www-form-urlencoded"

\* this.header of a facade instance as its constructor leaves it
FreshHeader == Header("org0", None, None)

\* a header object {} created by a direct caller of a handler
EmptyHeader == Header(None, None, None)

\* a config object by its set of keys; NullConfig is the value null
UserKeys == {"k1", "k2"}
NullConfig == [isNull |-> TRUE, keys |-> {}]
Config(keys) == [isNull |-> FALSE, keys |-> keys]
Configs == {NullConfig} \cup {Config(K) : K \in SUBSET UserKeys}

\* the query string of a request path: absent, or the single parameter
\* CONFIG holding the serialized keys of the config
NoParam == [present |-> FALSE, keys |-> {}]
CONFIG(config) == [present |-> TRUE, keys |-> config.keys]

\* what is put on the wire by a call: nothing (the call threw before any
\* request), or a request with its headers and query string
NoWire == [sent |-> FALSE, header |-> EmptyHeader, param |-> NoParam]

IdleFacade == [ws |-> FreshHeader, bulk |-> FreshHeader, op |-> "none",
               destOrgId |-> Null, kind |-> None, config |-> NullConfig,
               wire |-> NoWire]

\* the relay: let zohoAccessToken = ''
Empty == ""

\* requests in progress at the relay
Reqs == {"r1", "r2"}

\* process.env: TRUE when the variable is set to a non-empty value
Envs == [refreshToken : BOOLEAN, clientId : BOOLEAN, clientSecret : BOOLEAN]
NoEnv == [refreshToken |-> FALSE, clientId |-> FALSE, clientSecret |-> FALSE]

IdleReq == [pc |-> "idle", route |-> None, params |-> {}, handlerRan |-> FALSE,
            nexch |-> 0, exchBefore |-> 0, nfetch |-> 0, auth |-> None,
            first |-> 0, up |-> NoResponse, refreshed |-> None,
            nres |-> 0, status |-> 0, body |-> None]

\* the process before server.js is evaluated
IdleRelay == [phase |-> "load", env |-> NoEnv, zohoAccessToken |-> Empty,
              req |-> [r \in Reqs |-> IdleReq]]

Init ==
    /\ accessToken = Null
    /\ call = [c \in Calls |-> IdleCall]
    /\ batch = IdleBatch
    /\ facade = IdleFacade
    /\ relay = IdleRelay

Settled(c) == call[c].pc \in {"resolved", "rejected"}

----------------------------------------------------------------------------
(* handleV2Request / handleImportRequest / handleExportRequest *)

\* entry of a send function: the Authorization header is set, then the
\* request is put on the wire; sendImportRequest given a file first opens it
\* (fs.createReadStream) and sends nothing when the stream reports an error
sendEnter(rec, tok) ==
    IF rec.kind = "import" /\ ~rec.fileOk
    THEN [rec EXCEPT !.pc = "open", !.auth = Authorization(rec.auth, tok)]
    ELSE [rec EXCEPT !.pc = "send", !.nreq = @ + 1,
                     !.auth = Authorization(rec.auth, tok)]

\* entry of a handler up to its first await
handleEnter(c, kind, isExportReq, fileOk) ==
    /\ call[c].pc = "idle" \/ Settled(c)
    /\ LET fresh == [IdleCall EXCEPT !.kind = kind, !.isExportReq = isExportReq,
                                     !.fileOk = fileOk,
                                     !.startTok = accessToken]
       IN IF tokenMissing(accessToken)
          THEN call' = [call EXCEPT ![c] =
                          [fresh EXCEPT !.pc = "oauth", !.nexch = 1]]
          ELSE call' = [call EXCEPT ![c] = sendEnter(fresh, accessToken)]
    /\ UNCHANGED <<accessToken, batch, facade, relay>>

handleV2Request(c) ==
    \E isExportReq \in BOOLEAN : handleEnter(c, "v2", isExportReq, TRUE)

\* the import is given data or a file; the file may be unreadable
handleImportRequest(c) ==
    \E fileOk \in BOOLEAN : handleEnter(c, "import", FALSE, fileOk)

handleExportRequest(c) == handleEnter(c, "export", FALSE, TRUE)

\* the read stream of an import file emits 'error': the promise of
\* sendImportRequest is rejected with the file error
fileError(c) ==
    /\ call[c].pc = "open"
    /\ call' = [call EXCEPT ![c].pc =
                    IF catchHandler(1, "ENOENT") = "refresh" THEN "refresh"
                    ELSE "rejected",
                            ![c].val = "ENOENT", ![c].first = "ENOENT"]
    /\ UNCHANGED <<accessToken, batch, facade, relay>>

\* the exchange awaited before the first send completes
tokenFetchedOn(c, oresp) ==
    /\ call[c].pc = "oauth"
    /\  LET o == getOauth(oresp) IN
        CASE o.settle = "resolve" ->
               /\ accessToken' = o.val
               /\ call' = [call EXCEPT ![c] =
                              sendEnter([call[c] EXCEPT !.exchBefore = 1], o.val)]
          [] o.settle = "reject" ->
               /\ call' = [call EXCEPT ![c].pc = "rejected", ![c].val = o.val]
               /\ UNCHANGED accessToken
          [] o.settle = "throw" ->
               /\ call' = [call EXCEPT ![c].pc = "uncaught"]
               /\ UNCHANGED accessToken
    /\ UNCHANGED <<batch, facade, relay>>

tokenFetched(c) == \E oresp \in OauthResponses : tokenFetchedOn(c, oresp)

\* the response (or connection error) of the first send arrives
firstResponseOn(c, resp) ==
    /\ call[c].pc = "send"
    /\  LET o == sendOutcome(call[c].kind, resp, call[c].isExportReq) IN
        CASE o.settle = "resolve" ->
               call' = [call EXCEPT ![c].pc = "resolved", ![c].val = o.val,
                                    ![c].first = "resolve", ![c].resp = resp,
                                    ![c].written =
                                        IF call[c].kind = "export"
                                        THEN sendExportWritten(resp) ELSE None]
          [] o.settle = "throw" ->
               call' = [call EXCEPT ![c].pc = "uncaught",
                                    ![c].first = "throw", ![c].resp = resp]
          [] o.settle = "reject" ->
               IF catchHandler(1, o.val) = "refresh"
               THEN call' = [call EXCEPT ![c].pc = "refresh",
                                         ![c].nexch = @ + 1,
                                         ![c].first = o.val, ![c].resp = resp]
               ELSE call' = [call EXCEPT ![c].pc = "rejected", ![c].val = o.val,
                                         ![c].first = o.val, ![c].resp = resp]
    /\ UNCHANGED <<accessToken, batch, facade, relay>>

firstResponse(c) == \E resp \in ApiResponses : firstResponseOn(c, resp)

\* the exchange started by the catch handler completes
tokenRefreshedOn(c, oresp) ==
    /\ call[c].pc = "refresh"
    /\  LET o == getOauth(oresp) IN
        CASE o.settle = "resolve" ->
               /\ accessToken' = o.val
               /\ call' = [call EXCEPT ![c].pc = "retry", ![c].nreq = @ + 1,
                                       ![c].refreshed = o.val,
                                       ![c].auth = Authorization(call[c].auth, o.val)]
          [] o.settle = "reject" ->
               /\ call' = [call EXCEPT ![c].pc = "rejected", ![c].val = o.val,
                                       ![c].refreshed = "rejected"]
               /\ UNCHANGED accessToken
          [] o.settle = "throw" ->
               /\ call' = [call EXCEPT ![c].pc = "uncaught",
                                       ![c].refreshed = "throw"]
               /\ UNCHANGED accessToken
    /\ UNCHANGED <<batch, facade, relay>>

tokenRefreshed(c) == \E oresp \in OauthResponses : tokenRefreshedOn(c, oresp)

\* the response (or connection error) of the retry arrives
retryResponseOn(c, resp) ==
    /\ call[c].pc = "retry"
    /\  LET o == sendOutcome(call[c].kind, resp, call[c].isExportReq) IN
        CASE o.settle = "resolve" ->
               call' = [call EXCEPT ![c].pc = "resolved", ![c].val = o.val,
                                    ![c].resp = resp,
                                    ![c].written =
                                        IF call[c].kind = "export"
                                        THEN sendExportWritten(resp) ELSE None]
          [] o.settle = "throw" ->
               call' = [call EXCEPT ![c].pc = "uncaught", ![c].resp = resp]
          [] o.settle = "reject" ->
               IF catchHandler(2, o.val) = "refresh"
               THEN call' = [call EXCEPT ![c].pc = "refresh",
                                         ![c].nexch = @ + 1, ![c].resp = resp]
               ELSE call' = [call EXCEPT ![c].pc = "rejected", ![c].val = o.val,
                                         ![c].resp = resp]
    /\ UNCHANGED <<accessToken, batch, facade, relay>>

retryResponse(c) == \E resp \in ApiResponses : retryResponseOn(c, resp)

Next ==
    \E c \in Calls :
        \/ handleV2Request(c)
        \/ handleImportRequest(c)
        \/ handleExportRequest(c)
        \/ fileError(c)
        \/ tokenFetched(c)
        \/ firstResponse(c)
        \/ tokenRefreshed(c)
        \/ retryResponse(c)

Spec == Init /\ [][Next]_vars

----------------------------------------------------------------------------
(* handleBatchImportRequest *)

EOL == "\n"
FileChars == {"x", EOL}
MaxFileLen == 4
MaxBatchSize == 2
Files == UNION {[1..n -> FileChars] : n \in 0..MaxFileLen}

\* the data of a successful batch response: {batchKey, jobId}
BatchData == {[batchKey |-> "k1", jobId |-> "j1"],
              [batchKey |-> "k2", jobId |-> "j2"]}

\* no response data
NoData == [batchKey |-> Undefined, jobId |-> Undefined]

\* String.prototype.split(EOL)
RECURSIVE split(_)
split(s) ==
    IF \A k \in 1..Len(s) : s[k] # EOL THEN <<s>>
    ELSE LET k == CHOOSE j \in 1..Len(s) :
                    s[j] = EOL /\ \A m \in 1..(j - 1) : s[m] # EOL
         IN <<SubSeq(s, 1, k - 1)>> \o split(SubSeq(s, k + 1, Len(s)))

\* Array.prototype.join(EOL)
RECURSIVE join(_)
join(lines) ==
    IF lines = <<>> THEN <<>>
    ELSE IF Len(lines) = 1 THEN lines[1]
    ELSE lines[1] \o <<EOL>> \o join(Tail(lines))

\* Array.prototype.slice(from, to) for 0 <= from <= to
slice(arr, from, to) ==
    SubSeq(arr, from + 1, IF to < Len(arr) THEN to ELSE Len(arr))

\* fileContent.shift() + EOL, and fileContent after the shift
fileHeader(file) == Head(split(file)) \o <<EOL>>
fileContent(file) == Tail(split(file))

\* variant: the quotient is rounded down
totalBatchCount_floor(file, batchSize) ==
    Len(fileContent(file)) \div batchSize

\* Math.ceil(totalLines / batchSize) for batchSize >= 1
totalBatchCount(file, batchSize) ==
    (Len(fileContent(file)) + batchSize - 1) \div batchSize

\* variant: the slice ends one line further
chunk_overlap(file, batchSize, i) ==
    fileHeader(file)
        \o join(slice(fileContent(file), batchSize * i, batchSize + (i * batchSize) + 1))

\* fileHeader + fileContent.slice(batchSize*i, batchSize + i*batchSize).join(EOL)
chunk(file, batchSize, i) ==
    fileHeader(file)
        \o join(slice(fileContent(file), batchSize * i, batchSize + (i * batchSize)))

\* config.isLastBatch
isLastBatch(i, total) == IF i = total - 1 THEN "true" ELSE "false"

\* sendBatchImportRequest: the request.post callback
sendBatchImportOutcome(resp, data) ==
    IF resp = ConnError THEN Throw                      \* reject(JSON.parse(err))
    ELSE IF resp.body = "raw" THEN Throw                \* JSON.parse(body)
    ELSE IF resp.status # 200 THEN Reject(EnvelopeData(resp.body))
    ELSE Resolve(data)

\* the value bound to `response` by
\*   var response = await send(...).catch(async error => { ... response = await send(...); })
\* the handler returns nothing, and the declaration's assignment runs after it
awaitedResponse(firstData, handlerRan, retryData) ==
    IF handlerRan THEN [defined |-> FALSE, data |-> NoData]
    ELSE [defined |-> TRUE, data |-> firstData]

\* one request of the batch as put on the wire
request(b, tok) ==
    [i |-> b.i, batchKey |-> b.batchKey, isLastBatch |-> b.isLastBatch,
     auth |-> Authorization(IF b.sent = <<>> THEN None ELSE b.sent[Len(b.sent)].auth, tok),
     body |-> chunk(b.file, b.batchSize, b.i)]

\* variant: the token is fetched before the loop condition is tested
iteration_fetchFirst(b, tok) ==
    IF tokenMissing(tok)
    THEN [b EXCEPT !.pc = "oauth", !.nexch = @ + 1,
                   !.isLastBatch =
                       isLastBatch(b.i, totalBatchCount(b.file, b.batchSize))]
    ELSE IF b.i < totalBatchCount(b.file, b.batchSize)
    THEN LET it == [b EXCEPT !.isLastBatch =
                        isLastBatch(b.i, totalBatchCount(b.file, b.batchSize))]
         IN [it EXCEPT !.pc = "send", !.attempt = 1,
                       !.sent = Append(@, request(it, tok))]
    ELSE [b EXCEPT !.pc = "resolved", !.val = b.jobId]

\* the loop from its condition to the first await of the iteration
iteration(b, tok) ==
    IF b.i < totalBatchCount(b.file, b.batchSize)
    THEN LET it == [b EXCEPT !.isLastBatch =
                        isLastBatch(b.i, totalBatchCount(b.file, b.batchSize))]
         IN IF tokenMissing(tok)
            THEN [it EXCEPT !.pc = "oauth", !.nexch = @ + 1]
            ELSE [it EXCEPT !.pc = "send", !.attempt = 1,
                            !.sent = Append(@, request(it, tok))]
    ELSE [b EXCEPT !.pc = "resolved", !.val = b.jobId]

handleBatchImportRequest ==
    /\ batch.pc = "idle"
    /\ \E file \in Files, batchSize \in 1..MaxBatchSize :
        batch' = iteration([IdleBatch EXCEPT !.file = file,
                                             !.batchSize = batchSize,
                                             !.batchKey = "start"],
                           accessToken)
    /\ UNCHANGED <<accessToken, call, facade, relay>>

\* the exchange awaited at the top of an iteration completes
batchTokenFetched ==
    /\ batch.pc = "oauth"
    /\ \E oresp \in OauthResponses :
        LET o == getOauth(oresp) IN
        CASE o.settle = "resolve" ->
               /\ accessToken' = o.val
               /\ batch' = [batch EXCEPT !.pc = "send", !.attempt = 1,
                                         !.sent = Append(@, request(batch, o.val))]
          [] o.settle = "reject" ->
               /\ batch' = [batch EXCEPT !.pc = "rejected", !.val = o.val]
               /\ UNCHANGED accessToken
          [] o.settle = "throw" ->
               /\ batch' = [batch EXCEPT !.pc = "uncaught"]
               /\ UNCHANGED accessToken
    /\ UNCHANGED <<call, facade, relay>>

\* variant: the cursor of the response is not stored in config
afterSubmission_noCursor(b, response) ==
    IF ~response.defined
    THEN [b EXCEPT !.pc = "rejected", !.val = "TypeError"]
    ELSE [b EXCEPT !.pc = "sleep", !.jobId = response.data.jobId]

\* the statements after the await of the send: the cursor and the job id are
\* read from `response`, then the loop sleeps
afterSubmission(b, response) ==
    IF ~response.defined
    THEN [b EXCEPT !.pc = "rejected", !.val = "TypeError"]
    ELSE [b EXCEPT !.pc = "sleep", !.batchKey = response.data.batchKey,
                   !.jobId = response.data.jobId]

\* the response to the first submission of the current chunk arrives
batchResponse ==
    /\ batch.pc = "send"
    /\ \E resp \in ApiResponses, data \in BatchData :
        LET o == sendBatchImportOutcome(resp, data)
            b == [batch EXCEPT !.resp = resp]
        IN
        CASE o.settle = "resolve" ->
               batch' = afterSubmission([b EXCEPT !.recv = Append(@, [i |-> b.i, data |-> o.val])],
                                        awaitedResponse(o.val, FALSE, NoData))
          [] o.settle = "throw" ->
               batch' = [b EXCEPT !.pc = "uncaught"]
          [] o.settle = "reject" ->
               IF catchHandler(1, o.val) = "refresh"
               THEN batch' = [b EXCEPT !.pc = "refresh", !.nexch = @ + 1]
               ELSE batch' = [b EXCEPT !.pc = "rejected", !.val = o.val]
    /\ UNCHANGED <<accessToken, call, facade, relay>>

\* the exchange started by the catch handler completes; the same url and
\* batch are sent again
batchTokenRefreshed ==
    /\ batch.pc = "refresh"
    /\ \E oresp \in OauthResponses :
        LET o == getOauth(oresp) IN
        CASE o.settle = "resolve" ->
               /\ accessToken' = o.val
               /\ batch' = [batch EXCEPT !.pc = "retry", !.attempt = 2,
                                         !.sent = Append(@, request(batch, o.val))]
          [] o.settle = "reject" ->
               /\ batch' = [batch EXCEPT !.pc = "rejected", !.val = o.val]
               /\ UNCHANGED accessToken
          [] o.settle = "throw" ->
               /\ batch' = [batch EXCEPT !.pc = "uncaught"]
               /\ UNCHANGED accessToken
    /\ UNCHANGED <<call, facade, relay>>

\* the response to the re-submission arrives
batchRetryResponse ==
    /\ batch.pc = "retry"
    /\ \E resp \in ApiResponses, data \in BatchData :
        LET o == sendBatchImportOutcome(resp, data)
            b == [batch EXCEPT !.resp = resp]
        IN
        CASE o.settle = "resolve" ->
               batch' = afterSubmission([b EXCEPT !.recv = Append(@, [i |-> b.i, data |-> o.val])],
                                        awaitedResponse(NoData, TRUE, o.val))
          [] o.settle = "throw" ->
               batch' = [b EXCEPT !.pc = "uncaught"]
          [] o.settle = "reject" ->
               batch' = [b EXCEPT !.pc = "rejected", !.val = o.val]
    /\ UNCHANGED <<accessToken, call, facade, relay>>

\* await this.sleep(2000) returns: i++ and the next iteration
batchWake ==
    /\ batch.pc = "sleep"
    /\ batch' = iteration([batch EXCEPT !.i = @ + 1], accessToken)
    /\ UNCHANGED <<accessToken, call, facade, relay>>

NextBatch ==
    \/ handleBatchImportRequest
    \/ batchTokenFetched
    \/ batchResponse
    \/ batchTokenRefreshed
    \/ batchRetryResponse
    \/ batchWake

SpecBatch == Init /\ [][NextBatch]_vars

----------------------------------------------------------------------------
(* Concurrent calls against an upstream that grants every exchange and      *)
(* accepts a retry that carries the token its call has just been granted.   *)
(* Every request and exchange in flight is eventually answered.             *)

Granted(t) == [body |-> "json", access_token |-> t, error |-> Undefined]
ExpiredResponse == [status |-> 400, body |-> Sentinel]
OkResponse == [status |-> 200, body |-> "json"]

raceTokenFetched(c) == \E t \in Tokens : tokenFetchedOn(c, Granted(t))

raceFirstResponse(c) ==
    \E resp \in {ExpiredResponse, OkResponse} : firstResponseOn(c, resp)

raceTokenRefreshed(c) == \E t \in Tokens : tokenRefreshedOn(c, Granted(t))

raceRetryResponse(c) ==
    retryResponseOn(c, IF call[c].auth \in Tokens /\ call[c].auth = call[c].refreshed
                       THEN OkResponse ELSE ExpiredResponse)

NextRace ==
    \E c \in Calls :
        \/ handleV2Request(c)
        \/ handleImportRequest(c)
        \/ handleExportRequest(c)
        \/ fileError(c)
        \/ raceTokenFetched(c)
        \/ raceFirstResponse(c)
        \/ raceTokenRefreshed(c)
        \/ raceRetryResponse(c)

FairRace ==
    \A c \in Calls :
        /\ WF_vars(fileError(c))
        /\ WF_vars(raceTokenFetched(c))
        /\ WF_vars(raceFirstResponse(c))
        /\ WF_vars(raceTokenRefreshed(c))
        /\ WF_vars(raceRetryResponse(c))

SpecRace == Init /\ [][NextRace]_vars /\ FairRace

----------------------------------------------------------------------------
(* Facade classes: WorkspaceAPI and BulkAPI                                 *)
(* One WorkspaceAPI instance (facade.ws is its this.header) and one BulkAPI *)
(* instance (facade.bulk) receive calls one after another.  An action is a  *)
(* facade method together with the send function it reaches, up to the     *)
(* request being put on the wire; the header object is passed by reference, *)
(* so what the send function assigns to it stays in this.header.           *)

\* the query string each send function appends to uriPath
configParam(kind, config) ==
    CASE kind = "v2" ->
            IF ~config.isNull /\ config.keys # {} THEN CONFIG(config) ELSE NoParam
      [] kind \in {"import", "export"} ->
            IF ~config.isNull THEN CONFIG(config) ELSE NoParam
      [] kind = "batch" -> CONFIG(config)

\* the header object after a send function has run on it: sendImportRequest
\* given data assigns its Content-Type
sendHeader(kind, hasData, header) ==
    IF kind = "import" /\ hasData
    THEN [header EXCEPT !.contentType = FormUrlEncoded]
    ELSE header

\* config after a facade method or handleBatchImportRequest has assigned
\* the given keys to it
assign(config, keys) == Config(config.keys \cup keys)

\* var reqHeader = this.header; if(destOrgId != null) reqHeader[...] = destOrgId
reqHeader(header, destOrgId) ==
    IF destOrgId \notin {Null, Undefined}
    THEN [header EXCEPT !.destOrgId = destOrgId]
    ELSE header

\* a handler called with the given config and header object
handled(op, destOrgId, kind, hasData, config, header) ==
    [op |-> op, destOrgId |-> destOrgId, kind |-> kind, config |-> config,
     wire |-> [sent |-> TRUE, header |-> sendHeader(kind, hasData, header),
               param |-> configParam(kind, config)]]

\* a call on the WorkspaceAPI instance: this.header is the object sent
onWorkspace(op, destOrgId, kind, config, header) ==
    /\ facade' = [ws |-> sendHeader(kind, FALSE, header), bulk |-> facade.bulk]
                 @@ handled(op, destOrgId, kind, FALSE, config, header)
    /\ UNCHANGED <<accessToken, call, batch, relay>>

\* a call on the BulkAPI instance
onBulk(op, kind, hasData, config) ==
    /\ facade' = [ws |-> facade.ws, bulk |-> sendHeader(kind, hasData, facade.bulk)]
                 @@ handled(op, Null, kind, hasData, config, facade.bulk)
    /\ UNCHANGED <<accessToken, call, batch, relay>>

DestOrgIds == {Null, "org1", "org2"}

WorkspaceAPI_copy ==
    \E K \in SUBSET UserKeys, destOrgId \in DestOrgIds :
        onWorkspace("copy", destOrgId, "v2",
                    assign(Config(K), {"newWorkspaceName"}),
                    reqHeader(facade.ws, destOrgId))

WorkspaceAPI_copyViews ==
    \E K \in SUBSET UserKeys, destOrgId \in DestOrgIds :
        onWorkspace("copyViews", destOrgId, "v2",
                    assign(Config(K), {"viewIds", "destWorkspaceId"}),
                    reqHeader(facade.ws, destOrgId))

WorkspaceAPI_rename ==
    \E K \in SUBSET UserKeys :
        onWorkspace("rename", Null, "v2",
                    assign(Config(K), {"workspaceName"}), facade.ws)

WorkspaceAPI_delete ==
    \E K \in SUBSET UserKeys :
        onWorkspace("delete", Null, "v2", Config(K), facade.ws)

BulkAPI_importDataInNewTable ==
    \E K \in SUBSET UserKeys :
        onBulk("importDataInNewTable", "import", FALSE,
               assign(Config(K), {"tableName", "fileType", "autoIdentify"}))

BulkAPI_importRawDataInNewTable ==
    \E K \in SUBSET UserKeys :
        onBulk("importRawDataInNewTable", "import", TRUE,
               assign(Config(K), {"tableName", "fileType", "autoIdentify"}))

BulkAPI_importDataInNewTableAsBatches ==
    \E K \in SUBSET UserKeys :
        onBulk("importDataInNewTableAsBatches", "batch", FALSE,
               assign(assign(Config(K), {"tableName", "autoIdentify"}),
                      {"batchKey", "isLastBatch"}))

BulkAPI_exportData ==
    \E K \in SUBSET UserKeys :
        onBulk("exportData", "export", FALSE,
               assign(Config(K), {"responseFormat"}))

BulkAPI_exportBulkData ==
    onBulk("exportBulkData", "export", FALSE, NullConfig)

\* a handler of AnalyticsClient called without a facade, with a header
\* object of the caller; handleBatchImportRequest assigns config.batchKey
\* first, which throws a TypeError on null
direct(kind, hasData, config) ==
    /\ facade' =
          [ws |-> facade.ws, bulk |-> facade.bulk] @@
          IF kind = "batch" /\ config.isNull
          THEN [op |-> "direct", destOrgId |-> Null, kind |-> kind,
                config |-> config, wire |-> NoWire]
          ELSE handled("direct", Null, kind, hasData,
                       IF kind = "batch"
                       THEN assign(config, {"batchKey", "isLastBatch"})
                       ELSE config,
                       EmptyHeader)
    /\ UNCHANGED <<accessToken, call, batch, relay>>

directV2Request == \E config \in Configs : direct("v2", FALSE, config)

directImportRequest ==
    \E config \in Configs, hasData \in BOOLEAN : direct("import", hasData, config)

directExportRequest == \E config \in Configs : direct("export", FALSE, config)

directBatchImportRequest == \E config \in Configs : direct("batch", FALSE, config)

NextFacade ==
    \/ WorkspaceAPI_copy
    \/ WorkspaceAPI_copyViews
    \/ WorkspaceAPI_rename
    \/ WorkspaceAPI_delete
    \/ BulkAPI_importDataInNewTable
    \/ BulkAPI_importRawDataInNewTable
    \/ BulkAPI_importDataInNewTableAsBatches
    \/ BulkAPI_exportData
    \/ BulkAPI_exportBulkData
    \/ directV2Request
    \/ directImportRequest
    \/ directExportRequest
    \/ directBatchImportRequest

SpecFacade == Init /\ [][NextFacade]_vars

----------------------------------------------------------------------------
(* Relay: server.js                                                         *)
(* A request is one activation of a route with its middleware; an action is *)
(* the code run between two awaits.  The await of response.json() that      *)
(* follows a fetch touches no shared state and is taken together with the   *)
(* arrival of the response.                                                 *)

\* variant: the server listens whatever the environment holds
envCheck_none(env) == "listening"

\* if (!zohoRefreshToken || !clientId || !clientSecret) process.exit(1);
\* otherwise the module runs on to app.listen
envCheck(env) ==
    IF env.refreshToken /\ env.clientId /\ env.clientSecret
    THEN "listening" ELSE "exited"

\* server.js is evaluated with the environment of the process
startup ==
    /\ relay.phase = "load"
    /\ \E env \in Envs :
        relay' = [relay EXCEPT !.env = env, !.phase = envCheck(env)]
    /\ UNCHANGED <<accessToken, call, batch, facade>>

\* responses of the API host to a fetch: response.ok is status in 200..299;
\* ConnError is a fetch that throws
RelayResponses ==
    {[status |-> st, body |-> b] : st \in {200, 401, 404}, b \in {"json", "raw"}}
    \cup {ConnError}

\* refreshZohoToken: fetch, response.json(), then the test of data.access_token;
\* every failure is rethrown
refreshZohoToken(oresp) ==
    IF oresp.body = "json" /\ oresp.access_token \in Tokens
    THEN Resolve(oresp.access_token)
    ELSE Reject("Failed to refresh Zoho token")

\* the fields a route requires: !workspaceId || !viewId, !dashboardId
Routes == {"report", "dashboard"}
required(route) ==
    IF route = "report" THEN {"workspaceId", "viewId"} ELSE {"dashboardId"}

\* res.status(status).json(body)
respond(rec, status, body) ==
    [rec EXCEPT !.pc = "done", !.nres = @ + 1, !.status = status, !.body = body]

\* variant: the catch block only logs
caught_silent(rec) == [rec EXCEPT !.pc = "done"]

\* the catch block of handleZohoApiRequest
caught(rec) == respond(rec, 500, "Error fetching Zoho data")

\* a route handler from its start to its first await: the validation, then
\* handleZohoApiRequest up to the first fetch, sent with the cached token
routeHandler(rec, tok) ==
    LET ran == [rec EXCEPT !.handlerRan = TRUE] IN
    IF ~(required(rec.route) \subseteq rec.params)
    THEN respond(ran, 400, "Missing field in request")
    ELSE [ran EXCEPT !.pc = "fetch", !.nfetch = @ + 1, !.auth = tok]

\* variant: every 401 is answered with a refresh and a retry
expired_loop(attempt, status) == status = 401

\* if (response.status === 401), tested once, after the first fetch
expired(attempt, status) == attempt = 1 /\ status = 401

\* handleZohoApiRequest from if (!response.ok) to its end
settleResponse(rec, resp) ==
    LET r == [rec EXCEPT !.up = resp] IN
    IF resp = ConnError THEN caught(r)                  \* fetch threw
    ELSE IF ~Is2xx(resp.status) THEN caught(r)          \* throw new Error(...)
    ELSE IF resp.body = "raw" THEN caught(r)            \* response.json() threw
    ELSE respond(r, 200, "data")                        \* res.json(data)

\* a request arrives at a route: ensureZohoAccessToken up to its await, or
\* through next() into the route handler
ensureZohoAccessToken(r, route, params) ==
    /\ relay.phase = "listening"
    /\ relay.req[r].pc \in {"idle", "done"}
    /\ LET fresh == [IdleReq EXCEPT !.route = route, !.params = params] IN
       relay' = [relay EXCEPT !.req[r] =
                    IF relay.zohoAccessToken = Empty
                    THEN [fresh EXCEPT !.pc = "ensure", !.nexch = 1]
                    ELSE routeHandler(fresh, relay.zohoAccessToken)]
    /\ UNCHANGED <<accessToken, call, batch, facade>>

postReport(r) ==
    \E params \in SUBSET required("report") :
        ensureZohoAccessToken(r, "report", params)

getDashboard(r) ==
    \E params \in SUBSET required("dashboard") :
        ensureZohoAccessToken(r, "dashboard", params)

\* the refresh awaited by the middleware completes: next(), or the 500 of
\* its catch block
ensureRefreshed(r) ==
    /\ relay.req[r].pc = "ensure"
    /\ \E oresp \in OauthResponses :
        LET o == refreshZohoToken(oresp) IN
        IF o.settle = "resolve"
        THEN relay' = [relay EXCEPT
                          !.zohoAccessToken = o.val,
                          !.req[r] = routeHandler([@ EXCEPT !.exchBefore = 1], o.val)]
        ELSE relay' = [relay EXCEPT
                          !.req[r] = respond(@, 500, "Unable to refresh Zoho access token")]
    /\ UNCHANGED <<accessToken, call, batch, facade>>

\* the first fetch of handleZohoApiRequest completes
fetched(r) ==
    /\ relay.req[r].pc = "fetch"
    /\ \E resp \in RelayResponses :
        relay' = [relay EXCEPT !.req[r] =
                     IF resp # ConnError /\ expired(1, resp.status)
                     THEN [@ EXCEPT !.pc = "refresh", !.nexch = @ + 1,
                                    !.first = resp.status, !.up = resp]
                     ELSE settleResponse([@ EXCEPT !.first = resp.status], resp)]
    /\ UNCHANGED <<accessToken, call, batch, facade>>

\* the refresh after a 401 completes: the same request is fetched again with
\* the token just cached, or the failure reaches the catch block
refreshed(r) ==
    /\ relay.req[r].pc = "refresh"
    /\ \E oresp \in OauthResponses :
        LET o == refreshZohoToken(oresp) IN
        IF o.settle = "resolve"
        THEN relay' = [relay EXCEPT
                          !.zohoAccessToken = o.val,
                          !.req[r] = [@ EXCEPT !.pc = "refetch", !.nfetch = @ + 1,
                                               !.auth = o.val, !.refreshed = o.val]]
        ELSE relay' = [relay EXCEPT
                          !.req[r] = caught([@ EXCEPT !.refreshed = "failed"])]
    /\ UNCHANGED <<accessToken, call, batch, facade>>

\* the second fetch completes
refetched(r) ==
    /\ relay.req[r].pc = "refetch"
    /\ \E resp \in RelayResponses :
        relay' = [relay EXCEPT !.req[r] =
                     IF resp # ConnError /\ expired(2, resp.status)
                     THEN [@ EXCEPT !.pc = "refresh", !.nexch = @ + 1, !.up = resp]
                     ELSE settleResponse(@, resp)]
    /\ UNCHANGED <<accessToken, call, batch, facade>>

NextRelay ==
    \/ startup
    \/ \E r \in Reqs :
        \/ postReport(r)
        \/ getDashboard(r)
        \/ ensureRefreshed(r)
        \/ fetched(r)
        \/ refreshed(r)
        \/ refetched(r)

\* every fetch of the relay is eventually answered or fails
FairRelay ==
    \A r \in Reqs :
        /\ WF_vars(ensureRefreshed(r))
        /\ WF_vars(fetched(r))
        /\ WF_vars(refreshed(r))
        /\ WF_vars(refetched(r))

SpecRelay == Init /\ [][NextRelay]_vars /\ FairRelay

----------------------------------------------------------------------------
(* Properties *)

\* token exchanges a call has started after its first request was sent
Refreshes(c) == call[c].nexch - call[c].exchBefore

Last(seq) == seq[Len(seq)]

\* C1 as stated: a call whose first attempt (sent with a cached token) was
\* rejected with the sentinel ends after exactly one refresh and exactly one
\* re-issue; a retry rejected with the sentinel ends the call with that error.
C1_Original ==
    \A c \in Calls :
        (call[c].first = Sentinel /\ Settled(c) /\ call[c].startTok \in Tokens) =>
            /\ Refreshes(c) = 1
            /\ call[c].nreq = 2
            /\ (call[c].resp = ExpiredResponse =>
                    call[c].pc = "rejected" /\ call[c].val = Sentinel)

\* C1 amended: after a first attempt rejected with the sentinel exactly one
\* refresh is started; the request is re-issued exactly once when that refresh
\* resolves and not at all when it fails; a retry rejected with the sentinel
\* ends the call with that error, with no third attempt and no second refresh.
C1_RetryOnce ==
    \A c \in Calls :
        call[c].first = Sentinel =>
            /\ Refreshes(c) = 1
            /\ call[c].nreq =
                 IF call[c].refreshed \in Tokens \cup {Undefined} THEN 2 ELSE 1
            /\ (call[c].refreshed \in {"rejected", "throw"} =>
                    call[c].pc \in {"rejected", "uncaught"})
            /\ (call[c].nreq = 2 /\ call[c].pc # "retry"
                    /\ call[c].resp = ExpiredResponse =>
                        call[c].pc = "rejected" /\ call[c].val = Sentinel)

C1_Witness ==
    \E c \in Calls :
        /\ call[c].first = Sentinel /\ call[c].nreq = 2
        /\ call[c].resp = ExpiredResponse
        /\ call[c].pc = "rejected" /\ call[c].val = Sentinel

\* every request of the batch import carried a token
BatchTokensGranted == \A k \in 1..Len(batch.sent) : batch.sent[k].auth \in Tokens

\* C2 as stated: when the re-submission of a chunk after a refresh succeeds,
\* the import goes on with the batchKey and jobId of the retry's response.
C2_Claim ==
    (/\ batch.attempt = 2 /\ batch.pc # "retry" /\ batch.resp = OkResponse
     /\ BatchTokensGranted) =>
        /\ batch.pc \in {"sleep", "oauth", "resolved"}
        /\ batch.batchKey = Last(batch.recv).data.batchKey
        /\ batch.jobId = Last(batch.recv).data.jobId

\* C3: a call started with no cached token sends its first request after
\* exactly one completed exchange of its own, and when that request succeeds
\* the call has made no other exchange.
C3_OneFetchBeforeFirstRequest ==
    \A c \in Calls :
        call[c].startTok \in {Null, Undefined} =>
            /\ (call[c].nreq >= 1 => call[c].exchBefore = 1)
            /\ (call[c].pc = "resolved" /\ call[c].first = "resolve" =>
                    call[c].nexch = 1 /\ call[c].nreq = 1)

C3_Witness ==
    \E c \in Calls :
        /\ call[c].startTok = Null /\ call[c].pc = "resolved"
        /\ call[c].first = "resolve" /\ call[c].nexch = 1 /\ call[c].nreq = 1

\* the value a kind of call resolves with on a 200 response with a JSON body
ResultOf200(c) ==
    IF call[c].kind = "export" THEN Undefined
    ELSE IF call[c].isExportReq THEN "bytes"
    ELSE "data"

\* C4: for a call started with a cached token whose first attempt was rejected
\* with the sentinel, the step that ends the refresh with a new token caches
\* that token and sends the retry with it in the Authorization header; a 200
\* response to the retry resolves the call with the retry's result; and while
\* the retry is in flight the cached token changes only when another call's
\* exchange completes.
C4_RetryCarriesNewToken ==
    [][\A c \in Calls :
        /\ (/\ call[c].pc = "refresh" /\ call'[c].pc = "retry"
            /\ call[c].startTok \in Tokens /\ call'[c].refreshed \in Tokens)
           => /\ call'[c].auth = call'[c].refreshed
              /\ accessToken' = call'[c].refreshed
        /\ (/\ call[c].pc = "retry" /\ call'[c].pc # "retry"
            /\ call[c].startTok \in Tokens /\ call[c].refreshed \in Tokens
            /\ call'[c].resp = OkResponse)
           => /\ call'[c].pc = "resolved"
              /\ call'[c].val = ResultOf200(c)
              /\ call'[c].auth = call[c].refreshed
              /\ accessToken' = accessToken
        /\ (call[c].pc = "retry" /\ accessToken' # accessToken)
           => \E d \in Calls \ {c} :
                /\ call[d].pc \in {"oauth", "refresh"}
                /\ call'[d].pc \in {"send", "open", "retry"}
                /\ accessToken' = call'[d].auth
      ]_vars

C4_Witness ==
    \E c \in Calls :
        /\ call[c].startTok \in Tokens /\ call[c].first = Sentinel
        /\ call[c].refreshed \in Tokens /\ call[c].refreshed # call[c].startTok
        /\ call[c].auth = call[c].refreshed /\ accessToken = call[c].refreshed
        /\ call[c].pc = "resolved" /\ call[c].val = "data"

\* C5: a response with a status outside 2xx whose error code is not the
\* sentinel rejects the call with that code; no request and no exchange
\* follows it.
C5_ApiErrorNoRetry ==
    \A c \in Calls :
        (~Is2xx(call[c].resp.status) /\ call[c].resp.body = OtherCode) =>
            /\ call[c].pc = "rejected"
            /\ call[c].val = OtherCode
            /\ (call[c].first = OtherCode =>
                    call[c].nreq = 1 /\ Refreshes(c) = 0)
            /\ (call[c].first # OtherCode =>
                    call[c].first = Sentinel /\ call[c].nreq = 2 /\ Refreshes(c) = 1)

C5_Witness ==
    \E c \in Calls :
        /\ call[c].resp.status = 400 /\ call[c].resp.body = OtherCode
        /\ call[c].first = OtherCode /\ call[c].nreq = 1
        /\ call[c].pc = "rejected" /\ call[c].val = OtherCode

\* the number of lines after the header: one per EOL of the file
DataLines(file) == Cardinality({k \in 1..Len(file) : file[k] = EOL})

\* ceil(n / b)
Ceil(n, b) == CHOOSE t \in 0..n : t * b >= n /\ (t = 0 \/ (t - 1) * b < n)

C7_CursorChain ==
    /\ \A k \in 1..Len(batch.sent) :
          IF batch.sent[k].i = 0 THEN batch.sent[k].batchKey = "start"
          ELSE \E r \in 1..Len(batch.recv) :
                  /\ batch.recv[r].i = batch.sent[k].i - 1
                  /\ batch.recv[r].data.batchKey = batch.sent[k].batchKey
                  /\ \A q \in 1..Len(batch.recv) :
                        batch.recv[q].i = batch.recv[r].i => q = r
    /\ \A k \in 1..(Len(batch.sent) - 1) :
          batch.sent[k + 1].i \in {batch.sent[k].i, batch.sent[k].i + 1}
    /\ Len(batch.recv) <= Len(batch.sent)
    /\ (batch.pc \in {"send", "retry"} => Len(batch.recv) < Len(batch.sent))

C7_Witness ==
    /\ Len(batch.sent) = 3
    /\ batch.sent[1].batchKey = "start"
    /\ batch.sent[2].batchKey = "k1" /\ batch.sent[2].i = 1
    /\ batch.sent[3].batchKey = "k2" /\ batch.sent[3].i = 2

\* C8 as stated: when a chunk fails (its last response is not a success and
\* no retry is pending), the import is rejected with the error and no request
\* for a later chunk has been sent.
C8_Claim ==
    (/\ batch.resp # NoResponse /\ batch.resp # OkResponse
     /\ batch.pc \notin {"refresh", "retry"}
     /\ BatchTokensGranted) =>
        /\ batch.pc = "rejected"
        /\ \A k \in 1..Len(batch.sent) : batch.sent[k].i <= batch.i

\* C9: under SpecRace, a call whose first attempt was rejected with the
\* sentinel (it is refreshing) eventually resolves, having made its own
\* refresh and exactly one retry, whatever the other calls do meanwhile.
C9_ConcurrentRetriesSucceed ==
    \A c \in Calls :
        (call[c].pc = "refresh") ~>
            (/\ call[c].pc = "resolved" /\ call[c].first = Sentinel
             /\ call[c].nreq = 2 /\ Refreshes(c) = 1
             /\ call[c].auth = call[c].refreshed)

C9_Witness ==
    \E c, d \in Calls :
        /\ c # d
        /\ call[c].pc = "retry" /\ call[d].pc = "retry"
        /\ call[c].refreshed # call[d].refreshed
        /\ call[c].auth = call[c].refreshed /\ call[d].auth = call[d].refreshed
        /\ accessToken = call[d].refreshed

\* a connection error, or a failure status with a body that is not JSON
TransportFailure(resp) ==
    resp = ConnError \/ (resp.status = 400 /\ resp.body = "raw")

\* C10 as stated: a transport failure of a request rejects the call, and the
\* request is not sent again.
C10_Claim ==
    \A c \in Calls :
        (TransportFailure(call[c].resp) /\ call[c].auth \in Tokens) =>
            /\ call[c].pc = "rejected"
            /\ call[c].nreq = (IF call[c].first = Sentinel THEN 2 ELSE 1)

\* C11 as stated: every response to a sendV2Request settles its promise
\* exactly once, as a failure when the status is outside 2xx and as a success
\* when it is 2xx.
C11_Claim ==
    \A c \in Calls :
        (/\ call[c].kind = "v2" /\ call[c].nreq = 1 /\ call[c].auth \in Tokens
         /\ call[c].resp \in ApiResponses \ {ConnError}) =>
            /\ call[c].first # "throw"
            /\ (Is2xx(call[c].resp.status) <=> call[c].first = "resolve")

\* C12 as stated: after an exchange whose response has no access token, no
\* token is cached in its place and no request is sent without a token.
C12_Claim ==
    /\ accessToken # Undefined
    /\ \A c \in Calls : call[c].nreq >= 1 => call[c].auth \in Tokens

\* C13 as stated: when the refresh after a detected expiry does not yield a
\* token, the request is not sent again and the call is rejected.
C13_Claim ==
    \A c \in Calls :
        (/\ call[c].first = Sentinel /\ call[c].startTok \in Tokens
         /\ call[c].refreshed \notin Tokens \cup {None}) =>
            /\ call[c].pc = "rejected"
            /\ call[c].nreq = 1
            /\ Refreshes(c) = 1

\* C14 as stated: the step that ends a forced refresh leaves the newly issued
\* token in the cache when the exchange yielded one, and leaves the cache as
\* it was when it did not.
C14_Claim ==
    [][\A c \in Calls :
        (call[c].pc = "refresh" /\ call'[c].pc # "refresh") =>
            IF call'[c].refreshed \in Tokens
            THEN accessToken' = call'[c].refreshed
            ELSE accessToken' = accessToken
      ]_vars

\* C15 as stated: once a token is cached, every step leaves a token cached.
C15_Claim == [][(accessToken \in Tokens) => (accessToken' \in Tokens)]_vars

\* C16 as stated: on every request path a parseable response is taken as a
\* failure exactly when its status is outside 2xx.
C16_Claim ==
    \A c \in Calls :
        (/\ call[c].nreq = 1 /\ call[c].auth \in Tokens
         /\ call[c].resp \in ApiResponses /\ call[c].resp.body \notin {"raw", "conn"}) =>
            (Is2xx(call[c].resp.status) <=> call[c].first = "resolve")

\* C17 as stated: a file import rejected because its file cannot be opened
\* has started neither an API request nor a token exchange, whether or not a
\* token was cached when the call started.
C17_Claim ==
    \A c \in Calls :
        (/\ call[c].kind = "import" /\ ~call[c].fileOk
         /\ call[c].pc = "rejected" /\ call[c].val = "ENOENT") =>
            /\ call[c].nreq = 0
            /\ call[c].nexch = 0

FacadeOps == {"copy", "copyViews", "rename", "delete", "importDataInNewTable",
              "importRawDataInNewTable", "importDataInNewTableAsBatches",
              "exportData", "exportBulkData"}

\* C19 as stated: the headers a facade call sends are those a fresh instance
\* would send for the same method and arguments: ZANALYTICS-DEST-ORGID only
\* in a copy / copyViews given a destOrgId, and then that one; Content-Type
\* only in a raw-data import.
C19_Claim ==
    facade.op \in FacadeOps =>
        facade.wire.header =
            Header("org0",
                   IF facade.op \in {"copy", "copyViews"} /\ facade.destOrgId # Null
                   THEN facade.destOrgId ELSE None,
                   IF facade.op = "importRawDataInNewTable"
                   THEN FormUrlEncoded ELSE None)

\* C20 as stated: on every request path the request carries the CONFIG query
\* parameter exactly when the config it serializes is neither null nor
\* empty, and the parameter holds that config.
C20_Claim ==
    facade.wire.sent =>
        /\ facade.wire.param.present <=>
               (~facade.config.isNull /\ facade.config.keys # {})
        /\ facade.wire.param.present =>
               facade.wire.param.keys = facade.config.keys

\* the data lines of a chunk: its lines after the header line
chunkLines(body) == Tail(split(body))

\* the data lines of the first k requests, in submission order
RECURSIVE submittedLines(_, _)
submittedLines(sent, k) ==
    IF k = 0 THEN <<>>
    ELSE submittedLines(sent, k - 1) \o chunkLines(sent[k].body)

C26_AtMostTwo ==
    \A c \in Calls :
        /\ call[c].nreq <= 2
        /\ call[c].nexch <= 2
        /\ ~tokenMissing(call[c].startTok) => call[c].nexch <= 1
        /\ call[c].nexch = 2 =>
              /\ call[c].exchBefore = 1
              /\ call[c].first = Sentinel

C26_Witness ==
    \E c \in Calls :
        /\ call[c].nreq = 2 /\ call[c].nexch = 2
        /\ call[c].pc = "rejected" /\ call[c].resp = ExpiredResponse

\* C27 as stated: when the exchange awaited before the first send gives the
\* call no token, the call is rejected, it has sent no request, and the
\* cached token is left as it was.
C27_Claim ==
    [][\A c \in Calls :
        (/\ call[c].pc = "oauth" /\ call'[c].pc # "oauth"
         /\ call'[c].auth \notin Tokens) =>
            /\ call'[c].pc = "rejected"
            /\ call'[c].nreq = 0
            /\ accessToken' = accessToken
      ]_vars

C30_Only200Parsed ==
    \A c \in Calls :
        (call[c].kind = "v2" /\ ~call[c].isExportReq) =>
            /\ (call[c].resp.status = 200 /\ call[c].resp.body = "json") =>
                  /\ call[c].pc = "resolved"
                  /\ call[c].val = EnvelopeData("json")
            /\ (Is2xx(call[c].resp.status) /\ call[c].resp.status # 200) =>
                  /\ call[c].pc = "resolved"
                  /\ call[c].val = Undefined

C30_Witness ==
    \E c \in Calls :
        /\ call[c].kind = "v2" /\ ~call[c].isExportReq
        /\ call[c].resp = [status |-> 201, body |-> "raw"]
        /\ call[c].pc = "resolved" /\ call[c].val = Undefined

\* a request whose required fields are not all present
Invalid(r) == ~(required(relay.req[r].route) \subseteq relay.req[r].params)

\* C21 as stated: a request lacking a required field is answered with 400
\* and no fetch of the API host is made for it.
C21_Claim ==
    \A r \in Reqs :
        (relay.req[r].pc = "done" /\ Invalid(r)) =>
            /\ relay.req[r].status = 400
            /\ relay.req[r].nfetch = 0

\* C22 as stated: a request whose last upstream response had a status
\* outside 2xx is answered with that status.
C22_Claim ==
    \A r \in Reqs :
        (/\ relay.req[r].pc = "done"
         /\ relay.req[r].up \in RelayResponses \ {ConnError}
         /\ ~Is2xx(relay.req[r].up.status)) =>
            relay.req[r].status = relay.req[r].up.status

\* C23: when one of the three variables is missing the process has exited
\* once server.js has been evaluated: it never listens, no request is ever
\* accepted, no exchange or fetch is made and no token is cached.
C23_StartupCheck ==
    (/\ relay.phase # "load"
     /\ ~(relay.env.refreshToken /\ relay.env.clientId /\ relay.env.clientSecret)) =>
        /\ relay.phase = "exited"
        /\ relay.zohoAccessToken = Empty
        /\ \A r \in Reqs : relay.req[r] = IdleReq

C23_Witness ==
    /\ relay.phase = "exited"
    /\ relay.env.clientId /\ relay.env.clientSecret /\ ~relay.env.refreshToken

\* exchanges a relayed request has started after its first fetch
relayRefreshes(r) == relay.req[r].nexch - relay.req[r].exchBefore

\* C24 as stated: a request whose first fetch was answered 401 ends having
\* made exactly one exchange after it and exactly two fetches, the second
\* with the token obtained.
C24_Original ==
    \A r \in Reqs :
        (relay.req[r].pc = "done" /\ relay.req[r].first = 401) =>
            /\ relayRefreshes(r) = 1
            /\ relay.req[r].nfetch = 2
            /\ relay.req[r].auth = relay.req[r].refreshed

\* C24 amended: after a 401 on the first fetch exactly one exchange is made;
\* when it yields a token exactly one re-fetch follows, with that token in
\* its Authorization header; when it fails no re-fetch is made and the
\* request is answered 500; whatever the re-fetch returns, nothing further
\* is fetched or exchanged.
C24_RetryOnce ==
    \A r \in Reqs :
        relay.req[r].first = 401 =>
            /\ relayRefreshes(r) = 1
            /\ relay.req[r].pc \in {"refresh", "refetch", "done"}
            /\ relay.req[r].pc = "refresh" =>
                  relay.req[r].nfetch = 1 /\ relay.req[r].refreshed = None
            /\ relay.req[r].pc # "refresh" =>
                  \/ /\ relay.req[r].refreshed \in Tokens
                     /\ relay.req[r].nfetch = 2
                     /\ relay.req[r].auth = relay.req[r].refreshed
                  \/ /\ relay.req[r].refreshed = "failed"
                     /\ relay.req[r].nfetch = 1
                     /\ relay.req[r].pc = "done"
                     /\ relay.req[r].status = 500

C24_Witness ==
    \E r \in Reqs :
        /\ relay.req[r].pc = "done" /\ relay.req[r].first = 401
        /\ relay.req[r].up.status = 401 /\ relay.req[r].nfetch = 2
        /\ relay.req[r].auth = relay.req[r].refreshed
        /\ relay.req[r].auth # relay.zohoAccessToken
        /\ relay.req[r].status = 500

\* C28: a request being handled has been sent no response, a request that
\* has been handled has been sent exactly one, and every accepted request is
\* eventually handled.
C28_ExactlyOneResponse ==
    /\ [](\A r \in Reqs :
            /\ relay.req[r].pc \in {"ensure", "fetch", "refresh", "refetch"} =>
                  relay.req[r].nres = 0
            /\ relay.req[r].pc = "done" => relay.req[r].nres = 1)
    /\ \A r \in Reqs :
          (relay.req[r].pc \in {"ensure", "fetch", "refresh", "refetch"})
              ~> (relay.req[r].pc = "done" /\ relay.req[r].nres = 1)

C28_Witness ==
    \E r \in Reqs :
        /\ relay.req[r].pc = "done" /\ relay.req[r].nres = 1
        /\ relay.req[r].up = ConnError /\ relay.req[r].nfetch = 2
        /\ relay.req[r].status = 500

====
